---- MODULE Spec2Model ----
(***************************************************************************)
(* A model of tools/cocopy/cocopy/lib/compiler.py: the package descriptor  *)
(* Loader (loadProject / loadDependency / loadCore) and the Transformer    *)
(* that lowers Python module ASTs into Coconut modules.                    *)
(***************************************************************************)
EXTENDS Integers, Sequences, FiniteSets, TLC

\* Python's None, for a path, a package and a call's outcome.
NoPath == <<>>
NoPkg == [name |-> NoPath]
NoOutcome == [kind |-> "none"]

(***************************************************************************)
(* Bounds of the model.                                                    *)
(***************************************************************************)
\* Depth of the deepest directory below the filesystem root.
MaxDepth == 2
\* At most this many descriptor files exist on disk.
MaxFiles == 2

(***************************************************************************)
(* The Loader.                                                             *)
(*                                                                         *)
(* A directory is the sequence of its path components below "/": <<>> is   *)
(* the filesystem root, <<"a">> is "/a", <<"a", "b">> is "/a/b".           *)
(***************************************************************************)
DirNames == <<"a", "b", "c", "d", "e">>
Dir(n) == SubSeq(DirNames, 1, n)
Dirs == {Dir(n) : n \in 0..MaxDepth}

\* pack.coconut_proj_base, pack.coconut_project_base, pack.coconut_package_base:
\* the well-known descriptor base names.
coconut_proj_base == "Coconut"
coconut_project_base == "Coconut"
coconut_package_base == "Cocopack"
\* pack.unmarshalers: the registered extensions, in their (fixed) iteration order.
unmarshalers == <<".json", ".yaml">>

FileBases == {coconut_proj_base, coconut_project_base, coconut_package_base}
Exts == {unmarshalers[i] : i \in 1..Len(unmarshalers)}

\* path.join(search, filebase)
join(dir, name) == Append(dir, name)
\* A parent() that never leaves the directory it is given.
parentStuck(dir) == dir
\* path.normpath(path.join(search, "..")): the parent, and "/" for "/" itself.
parent(dir) == IF dir = <<>> THEN <<>> ELSE SubSeq(dir, 1, Len(dir) - 1)
\* base + ext
addext(base, ext) == <<base, ext>>

Paths == {addext(join(d, b), e) : d \in Dirs, b \in FileBases, e \in Exts}

\* What open(pkgpath) and the unmarshaler find at a path: no file (IOError), a
\* descriptor with a name, or a descriptor that parses but has no name.
Slots == [1..MaxFiles -> {<<p, st>> : p \in Paths, st \in {"absent", "valid", "noname"}}]
MkFs(slots) ==
    [p \in Paths |->
        IF \E i \in 1..MaxFiles : slots[i][1] = p /\ slots[i][2] # "absent"
        THEN LET i == CHOOSE j \in 1..MaxFiles : slots[j][1] = p /\ slots[j][2] # "absent"
             IN  slots[i][2]
        ELSE "absent"]
FileSystems == {MkFs(sl) : sl \in Slots}

\* pack.Package(d["name"], ...): the descriptor read from a path.
Package(p) == [name |-> p]

\* filebases for the two resolution modes
loadProject_filebases == <<coconut_proj_base>>
loadDependency_filebases == <<coconut_project_base, coconut_package_base>>

VARIABLES
    fs,         \* the descriptor files on disk
    cache,      \* Loader.cache: pkgpath -> Package
    lpc,        \* position inside loadCore: idle, probe, after_for, returned, raised
    root,       \* loadCore's root argument
    filebases,  \* loadCore's filebases argument
    upwards,    \* loadCore's upwards argument
    search,     \* the directory being searched
    bi,         \* index of the current filebase
    ei,         \* index of the current extension
    pkg,        \* the local pkg
    pkgpath,    \* the local pkgpath (the last path built)
    outcome,    \* what the call returned or raised
    probed,     \* history: paths open() was called on during this call
    reprobed,   \* history: some path was opened twice during this call
    reads,      \* history: paths read and parsed since the Loader was built
    rereads,    \* history: paths read and parsed more than once
    tpc,        \* position inside Transformer.transform: idle, loop, body, insert,
                \* returned, raised
    ctx,        \* Transformer.ctx
    oldctx,     \* transform's local oldctx
    self_pkg,   \* Transformer.pkg: its name and its module table
    modules,    \* transform's argument
    mi,         \* index of the module being lowered
    members,    \* transform_Module's local members
    initstmts,  \* transform_Module's local initstmts
    imports,    \* transform_Module's local imports
    si,         \* index of the top-level statement being lowered
    mod,        \* transform's local mod: the module transform_Module returned
    raised      \* the exception that left transform

lvars == <<fs, cache, lpc, root, filebases, upwards, search, bi, ei, pkg,
           pkgpath, outcome, probed, reprobed, reads, rereads>>

tvars == <<tpc, ctx, oldctx, self_pkg, modules, mi, members, initstmts, imports,
           si, mod, raised>>

vars == <<lvars, tvars>>

\* Loader.__init__, on the filesystem f.
Loader_init(f) ==
    /\ fs = f
    /\ cache = <<>>
    /\ lpc = "idle"
    /\ root = <<>>
    /\ filebases = <<>>
    /\ upwards = FALSE
    /\ search = <<>>
    /\ bi = 1
    /\ ei = 1
    /\ pkg = NoPkg
    /\ pkgpath = NoPath
    /\ outcome = NoOutcome
    /\ probed = {}
    /\ reprobed = FALSE
    /\ reads = {}
    /\ rereads = {}

\* loadCore, lines 577-578: pkg = NoPkg; search = path.normpath(root)
loadCore_enter(r, bases, up) ==
    /\ lpc \in {"idle", "returned", "raised"}
    /\ lpc' = "probe"
    /\ root' = r
    /\ filebases' = bases
    /\ upwards' = up
    /\ search' = r
    /\ bi' = 1
    /\ ei' = 1
    /\ pkg' = NoPkg
    /\ pkgpath' = NoPath
    /\ outcome' = NoOutcome
    /\ probed' = {}
    /\ reprobed' = FALSE
    /\ UNCHANGED <<fs, cache, reads, rereads>>
    /\ UNCHANGED tvars

loadProject == \E r \in Dirs : loadCore_enter(r, loadProject_filebases, FALSE)

loadDependency == \E r \in Dirs : loadCore_enter(r, loadDependency_filebases, TRUE)

\* The candidate path of the current iteration (lines 582-584).
base == join(search, filebases[bi])
candidate == addext(base, unmarshalers[ei])

\* A lookup that never finds anything in the cache.
cacheMiss(c, p) == FALSE
\* self.cache.get(pkgpath) followed by "if pkg" (lines 587-588).
cacheHit(c, p) == p \in DOMAIN c

\* A reader that builds a Package without looking for the name.
readDescriptorUnchecked(p) == "found"
\* What open() + the unmarshaler do with a path that is not absent.
\* "found": a Package was built (line 600); "invalid": the name is missing (line 599).
readDescriptor(p) == IF fs[p] = "valid" THEN "found" ELSE "invalid"

\* One iteration of the inner for loop, lines 584-609.
Probe ==
    /\ lpc = "probe"
    /\ pkgpath' = candidate
    /\ IF cacheHit(cache, candidate)
       THEN \* lines 587-589: a cache hit returns at once
            /\ pkg' = cache[candidate]
            /\ lpc' = "returned"
            /\ outcome' = [kind |-> "pkg", pkg |-> cache[candidate], via |-> "cache"]
            /\ UNCHANGED <<bi, ei, probed, reprobed, reads, rereads>>
       ELSE /\ probed' = probed \cup {candidate}
            /\ reprobed' = (reprobed \/ candidate \in probed)
            /\ IF fs[candidate] = "absent"
               THEN \* lines 607-609: IOError, keep searching
                    /\ UNCHANGED <<pkg, outcome, reads, rereads>>
                    /\ IF ei < Len(unmarshalers)
                       THEN /\ ei' = ei + 1
                            /\ UNCHANGED <<bi, lpc>>
                       ELSE IF bi < Len(filebases)
                       THEN /\ bi' = bi + 1
                            /\ ei' = 1
                            /\ UNCHANGED lpc
                       ELSE /\ lpc' = "after_for"
                            /\ UNCHANGED <<bi, ei>>
               ELSE /\ reads' = reads \cup {candidate}
                    /\ rereads' = IF candidate \in reads
                                  THEN rereads \cup {candidate} ELSE rereads
                    /\ UNCHANGED <<bi, ei>>
                    /\ IF readDescriptor(candidate) = "found"
                       THEN \* lines 600-606, 611-613: build the package, break twice
                            /\ pkg' = Package(candidate)
                            /\ lpc' = "after_for"
                            /\ UNCHANGED outcome
                       ELSE \* line 599: not an IOError, so it leaves loadCore
                            /\ lpc' = "raised"
                            /\ outcome' = [kind |-> "Missing name in package",
                                           path |-> candidate]
                            /\ UNCHANGED pkg
    /\ UNCHANGED <<fs, cache, root, filebases, upwards, search>>
    /\ UNCHANGED tvars

\* Lines 615-630: what follows the for loops.
AfterFor ==
    /\ lpc = "after_for"
    /\ IF pkg # NoPkg
       THEN \* the while loop ends; lines 629-630 memoize and return
            /\ cache' = [p \in DOMAIN cache \cup {pkgpath} |->
                            IF p = pkgpath THEN pkg ELSE cache[p]]
            /\ lpc' = "returned"
            /\ outcome' = [kind |-> "pkg", pkg |-> pkg, via |-> "disk"]
            /\ UNCHANGED <<search, bi, ei>>
       ELSE IF upwards /\ base # <<>>
       THEN \* line 621: base is never "/", so the parent is searched next
            /\ search' = parent(search)
            /\ bi' = 1
            /\ ei' = 1
            /\ lpc' = "probe"
            /\ UNCHANGED <<cache, outcome>>
       ELSE \* lines 620/623 break, then line 626
            /\ lpc' = "raised"
            /\ outcome' = [kind |-> "No package found at root path", path |-> root]
            /\ UNCHANGED <<cache, search, bi, ei>>
    /\ UNCHANGED <<fs, root, filebases, upwards, pkg, pkgpath, probed, reprobed,
                   reads, rereads>>
    /\ UNCHANGED tvars

(***************************************************************************)
(* The Transformer: Python AST nodes (pythonparser.ast).                   *)
(*                                                                         *)
(* Every node is a record whose cls field names its class.  A node's loc   *)
(* is the source range pythonparser attaches to it; pythonparser leaves    *)
(* every ctx field None.                                                   *)
(***************************************************************************)
NoneNode == [cls |-> "NoneType"]
SrcLoc(line) == [line |-> line, column |-> 0, end_line |-> line, end_column |-> 8]

Name(id, l) == [cls |-> "py_ast.Name", id |-> id, ctx |-> NoneNode, loc |-> l]
Str(str, l) == [cls |-> "py_ast.Str", s |-> str, loc |-> l]
Num(n, l) == [cls |-> "py_ast.Num", n |-> n, loc |-> l]
NameConstant(v, l) == [cls |-> "py_ast.NameConstant", value |-> v, loc |-> l]
Attribute(v, a, l) ==
    [cls |-> "py_ast.Attribute", value |-> v, attr |-> a, ctx |-> NoneNode, loc |-> l]
Call(f, as, l) == [cls |-> "py_ast.Call", func |-> f, args |-> as, loc |-> l]
Compare(lhs, os, rs, l) ==
    [cls |-> "py_ast.Compare", left |-> lhs, ops |-> os, comparators |-> rs, loc |-> l]
IfExp(t, b, e, l) ==
    [cls |-> "py_ast.IfExp", test |-> t, body |-> b, orelse |-> e, loc |-> l]
\* A node of a class the transformer dispatches on but reads no field of.
Other(c, l) == [cls |-> c, loc |-> l]

Pass(l) == [cls |-> "py_ast.Pass", loc |-> l]
Break(l) == [cls |-> "py_ast.Break", loc |-> l]
Continue(l) == [cls |-> "py_ast.Continue", loc |-> l]
Expr(v, l) == [cls |-> "py_ast.Expr", value |-> v, loc |-> l]
Assign(ts, v, l) == [cls |-> "py_ast.Assign", targets |-> ts, value |-> v, loc |-> l]
Return(v, l) == [cls |-> "py_ast.Return", value |-> v, loc |-> l]
If(t, b, e, l) == [cls |-> "py_ast.If", test |-> t, body |-> b, orelse |-> e, loc |-> l]
FunctionDef(n, as, b, l) ==
    [cls |-> "py_ast.FunctionDef", name |-> n,
     args |-> [cls |-> "py_ast.arguments", args |-> as, loc |-> l],
     body |-> b, loc |-> l]
\* An "import a.b" names the dotted module name a.b, here the sequence of its parts.
Import(ns, l) ==
    [cls |-> "py_ast.Import",
     names |-> [i \in 1..Len(ns) |-> [cls |-> "py_ast.alias", name |-> ns[i], loc |-> l]],
     loc |-> l]

(***************************************************************************)
(* Coconut AST nodes (cocopy.lib.ast) and well-known tokens                *)
(* (cocopy.lib.tokens).                                                    *)
(***************************************************************************)
func_init == ".init"
func_entrypoint == ".main"
type_dynamic == "dynamic"
binop_assign == "="
binop_eqeq == "=="
binop_noteq == "!="
binop_gt == ">"
binop_gteq == ">="
binop_lt == "<"
binop_lteq == "<="

Position(line, column) == [line |-> line, column |-> column]
Location(file, start, end) ==
    [cls |-> "ast.Location", file |-> file, start |-> start, end |-> end]
Identifier(name, l) == [cls |-> "ast.Identifier", ident |-> name, loc |-> l]
TypeToken(tok, l) == [cls |-> "ast.TypeToken", tok |-> tok, loc |-> l]
Token(tok) == [cls |-> "ast.Token", tok |-> tok]
\* name.replace(".", tokens.name_delim): the same parts, joined by "/".
ModuleToken(parts, l) ==
    [cls |-> "ast.ModuleToken", tok |-> [parts |-> parts, delim |-> "/"], loc |-> l]
ModuleProperty(name, type) ==
    [cls |-> "ast.ModuleProperty", name |-> name, type |-> type]
ModuleMethod(name, parameters, returnType, body, l) ==
    [cls |-> "ast.ModuleMethod", name |-> name, parameters |-> parameters,
     returnType |-> returnType, body |-> body, loc |-> l]
LocalVariable(name, type, l) ==
    [cls |-> "ast.LocalVariable", name |-> name, type |-> type, loc |-> l]
Block(stmts, l) == [cls |-> "ast.Block", statements |-> stmts, loc |-> l]
ExpressionStatement(e, l) ==
    [cls |-> "ast.ExpressionStatement", expression |-> e, loc |-> l]
EmptyStatement(l) == [cls |-> "ast.EmptyStatement", loc |-> l]
BreakStatement(l) == [cls |-> "ast.Break", loc |-> l]
ContinueStatement(l) == [cls |-> "ast.Continue", loc |-> l]
ReturnStatement(e, l) == [cls |-> "ast.ReturnStatement", expression |-> e, loc |-> l]
IfStatement(c, cons, alt, l) ==
    [cls |-> "ast.IfStatement", condition |-> c, consequent |-> cons,
     alternate |-> alt, loc |-> l]
BinaryOperatorExpression(lhs, op, rhs, l) ==
    [cls |-> "ast.BinaryOperatorExpression", left |-> lhs, operator |-> op,
     right |-> rhs, loc |-> l]
LoadLocationExpression(name, l) ==
    [cls |-> "ast.LoadLocationExpression", name |-> name, loc |-> l]
LoadDynamicExpression(name, obj, l) ==
    [cls |-> "ast.LoadDynamicExpression", name |-> name, object |-> obj, loc |-> l]
InvokeFunctionExpression(f, as, l) ==
    [cls |-> "ast.InvokeFunctionExpression", function |-> f, arguments |-> as, loc |-> l]
ConditionalExpression(c, cons, alt, l) ==
    [cls |-> "ast.ConditionalExpression", condition |-> c, consequent |-> cons,
     alternate |-> alt, loc |-> l]
StringLiteral(v, l) == [cls |-> "ast.StringLiteral", value |-> v, loc |-> l]
NullLiteral(l) == [cls |-> "ast.NullLiteral", loc |-> l]
BoolLiteral(v, l) == [cls |-> "ast.BoolLiteral", value |-> v, loc |-> l]
Export(name, tok) == [cls |-> "ast.Export", name |-> name, token |-> tok]
Module(name, imps, exports, mems) ==
    [cls |-> "ast.Module", name |-> name, imports |-> imps, exports |-> exports,
     members |-> mems]

\* A raised exception: its type and what it names.
Raise(type, what) == [cls |-> "Error", type |-> type, what |-> what]
IsErr(r) == r.cls = "Error"

ExpressionClasses ==
    {"ast.BinaryOperatorExpression", "ast.LoadLocationExpression",
     "ast.LoadDynamicExpression", "ast.InvokeFunctionExpression",
     "ast.ConditionalExpression", "ast.StringLiteral", "ast.NullLiteral",
     "ast.BoolLiteral", "ast.NumberLiteral"}
StatementClasses ==
    {"ast.Block", "ast.ExpressionStatement", "ast.EmptyStatement", "ast.Break",
     "ast.Continue", "ast.ReturnStatement", "ast.IfStatement"}

\* The py_ast class name without its module, as type(node).__name__ gives it.
TypeName(node) ==
    CASE node.cls = "py_ast.ClassDef" -> "ClassDef"
      [] node.cls = "py_ast.Assert" -> "Assert"
      [] node.cls = "py_ast.AugAssign" -> "AugAssign"
      [] node.cls = "py_ast.Delete" -> "Delete"
      [] node.cls = "py_ast.Exec" -> "Exec"
      [] node.cls = "py_ast.For" -> "For"
      [] node.cls = "py_ast.Global" -> "Global"
      [] node.cls = "py_ast.Nonlocal" -> "Nonlocal"
      [] node.cls = "py_ast.Print" -> "Print"
      [] node.cls = "py_ast.Raise" -> "Raise"
      [] node.cls = "py_ast.Try" -> "Try"
      [] node.cls = "py_ast.While" -> "While"
      [] node.cls = "py_ast.With" -> "With"
      [] node.cls = "py_ast.BinOp" -> "BinOp"
      [] node.cls = "py_ast.BoolOp" -> "BoolOp"
      [] node.cls = "py_ast.Dict" -> "Dict"
      [] node.cls = "py_ast.DictComp" -> "DictComp"
      [] node.cls = "py_ast.Ellipsis" -> "Ellipsis"
      [] node.cls = "py_ast.GeneratorExp" -> "GeneratorExp"
      [] node.cls = "py_ast.Lambda" -> "Lambda"
      [] node.cls = "py_ast.List" -> "List"
      [] node.cls = "py_ast.ListComp" -> "ListComp"
      [] node.cls = "py_ast.Repr" -> "Repr"
      [] node.cls = "py_ast.Set" -> "Set"
      [] node.cls = "py_ast.SetComp" -> "SetComp"
      [] node.cls = "py_ast.Starred" -> "Starred"
      [] node.cls = "py_ast.Subscript" -> "Subscript"
      [] node.cls = "py_ast.Tuple" -> "Tuple"
      [] node.cls = "py_ast.UnaryOp" -> "UnaryOp"
      [] node.cls = "py_ast.Yield" -> "Yield"
      [] node.cls = "py_ast.YieldFrom" -> "YieldFrom"
      [] node.cls = "py_ast.ImportFrom" -> "ImportFrom"
      [] node.cls = "list" -> "list"
      [] OTHER -> node.cls

\* Transformer.not_yet_implemented
not_yet_implemented(node) == Raise("Exception: Not yet implemented", TypeName(node))

\* Transformer.loc_from, for the module file `file`; column + 1 makes it 1-based.
loc_from(node, file) ==
    IF node = NoneNode
    THEN NoneNode
    ELSE Location(file,
                  Position(node.loc.line, node.loc.column + 1),
                  Position(node.loc.end_line, node.loc.end_column + 1))

\* Transformer.ident and Transformer.type_token
ident(name, node, file) == Identifier(name, loc_from(node, file))
type_token(tok, node, file) == TypeToken(tok, loc_from(node, file))

(***************************************************************************)
(* Expression lowering.  A transform_* operator yields the Coconut node or *)
(* the exception that leaves it.                                           *)
(***************************************************************************)
UnsupportedExprClasses ==
    {"py_ast.BinOp", "py_ast.BoolOp", "py_ast.Dict", "py_ast.DictComp",
     "py_ast.Ellipsis", "py_ast.GeneratorExp", "py_ast.Lambda", "py_ast.List",
     "py_ast.ListComp", "py_ast.Repr", "py_ast.Set", "py_ast.SetComp",
     "py_ast.Starred", "py_ast.Subscript", "py_ast.Tuple", "py_ast.UnaryOp",
     "py_ast.Yield", "py_ast.YieldFrom"}

\* Exception propagation: F is applied to a result that is no exception.
ThenE(e, F(_)) == IF IsErr(e) THEN e ELSE F(e)
\* The same for a list of results: the first exception among them ends the list.
ThenAll(rs, F(_)) ==
    IF \E i \in 1..Len(rs) : IsErr(rs[i])
    THEN rs[CHOOSE i \in 1..Len(rs) :
                IsErr(rs[i]) /\ \A j \in 1..(i - 1) : ~IsErr(rs[j])]
    ELSE F(rs)

\* Transformer.transform_Compare, lines 458-474: the operator mapping.
compare_op(pyop) ==
    CASE pyop \in {"Eq", "Is"} -> binop_eqeq
      [] pyop \in {"NotEq", "IsNot"} -> binop_noteq
      [] pyop = "Gt" -> binop_gt
      [] pyop = "GtE" -> binop_gteq
      [] pyop = "Lt" -> binop_lt
      [] pyop = "LtE" -> binop_lteq
      [] OTHER -> "unsupported"

\* Transformer.transform_Call, line 450: the list the argument loop iterates over.
call_args(node) == <<>>

\* Lines 430-434: the result of a handler must be an ast.Expression.
check_expr(expr, node) ==
    IF IsErr(expr) THEN expr
    ELSE IF expr.cls \notin ExpressionClasses
    THEN Raise("AssertionError", TypeName(node))
    ELSE expr

RECURSIVE transform_expr(_, _)
\* Transformer.transform_Attribute
transform_Attribute(node, file) ==
    IF node.ctx # NoneNode
    THEN Raise("AssertionError", "ctx")
    ELSE ThenE(transform_expr(node.value, file),
               LAMBDA obj : LoadDynamicExpression(StringLiteral(node.attr, NoneNode),
                                                  obj, loc_from(node, file)))

\* Transformer.transform_Call, lines 450-452: the argument loop.
lower_args(args, file) == [i \in 1..Len(args) |-> transform_expr(args[i], file)]

\* Transformer.transform_Call
transform_Call(node, file) ==
    ThenE(transform_expr(node.func, file),
          LAMBDA func :
            ThenAll(lower_args(call_args(node), file),
                    LAMBDA args :
                      InvokeFunctionExpression(func, args, loc_from(node, file))))

\* Transformer.transform_Compare
transform_Compare(node, file) ==
    IF ~(Len(node.ops) = 1 /\ Len(node.comparators) = 1)
    THEN Raise("AssertionError", "Multi-comparison operators not yet supported")
    ELSE ThenE(transform_expr(node.left, file),
               LAMBDA lhs :
                 IF compare_op(node.ops[1]) = "unsupported"
                 THEN Raise("AssertionError", node.ops[1])
                 ELSE ThenE(transform_expr(node.comparators[1], file),
                            LAMBDA rhs :
                              BinaryOperatorExpression(lhs, compare_op(node.ops[1]),
                                                       rhs, loc_from(node, file))))

\* Transformer.transform_IfExp
transform_IfExp(node, file) ==
    ThenE(transform_expr(node.test, file),
          LAMBDA cond :
            ThenE(transform_expr(node.body, file),
                  LAMBDA cons :
                    ThenE(transform_expr(node.orelse, file),
                          LAMBDA altr :
                            ConditionalExpression(cond, cons, altr,
                                                  loc_from(node, file)))))

\* Transformer.transform_Name
transform_Name(node, file) ==
    IF node.ctx # NoneNode
    THEN Raise("AssertionError", "ctx")
    ELSE LoadLocationExpression(Token(node.id), loc_from(node, file))

\* Transformer.transform_NameConstant
transform_NameConstant(node, file) ==
    CASE node.value = "None" -> NullLiteral(loc_from(node, file))
      [] node.value = "True" -> BoolLiteral(TRUE, loc_from(node, file))
      [] node.value = "False" -> BoolLiteral(FALSE, loc_from(node, file))
      [] OTHER -> Raise("AssertionError", node.value)

\* Transformer.transform_Num: self.value is read from the Transformer, which has
\* no such attribute.
transform_Num(node, file) == Raise("AttributeError", "value")

\* Transformer.transform_Str
transform_Str(node, file) == StringLiteral(node.s, loc_from(node, file))

\* Transformer.transform_expr
transform_expr(node, file) ==
    check_expr(
        CASE node.cls = "py_ast.Attribute" -> transform_Attribute(node, file)
          [] node.cls = "py_ast.Call" -> transform_Call(node, file)
          [] node.cls = "py_ast.Compare" -> transform_Compare(node, file)
          [] node.cls = "py_ast.IfExp" -> transform_IfExp(node, file)
          [] node.cls = "py_ast.Name" -> transform_Name(node, file)
          [] node.cls = "py_ast.NameConstant" -> transform_NameConstant(node, file)
          [] node.cls = "py_ast.Num" -> transform_Num(node, file)
          [] node.cls = "py_ast.Str" -> transform_Str(node, file)
          [] node.cls \in UnsupportedExprClasses -> not_yet_implemented(node)
          [] OTHER -> Raise("AssertionError", TypeName(node)),
        node)

(***************************************************************************)
(* Statement lowering.  The transformation context (Context: mod, globals, *)
(* func) is threaded through: an operator yields [res, ctx], the Coconut   *)
(* node or exception and the context as the call leaves it.                *)
(***************************************************************************)
UnsupportedStmtClasses ==
    {"py_ast.Assert", "py_ast.AugAssign", "py_ast.Delete", "py_ast.Exec",
     "py_ast.For", "py_ast.Global", "py_ast.Nonlocal", "py_ast.Print",
     "py_ast.Raise", "py_ast.Try", "py_ast.While", "py_ast.With"}

Context(module) == [cls |-> "Context", mod |-> module, globals |-> {}, func |-> NoneNode]
R(res, c) == [res |-> res, ctx |-> c]
\* Exception propagation: F is applied to an outcome that is no exception.
ThenS(r, F(_)) == IF IsErr(r.res) THEN r ELSE F(r)
\* An expression's result as a statement outcome in context c.
ThenExpr(e, c, F(_)) == IF IsErr(e) THEN R(e, c) ELSE F(e)

\* isinstance(x, py_ast.Name)
isinstance_Name(x) == x.cls = "py_ast.Name"

\* Transformer.track_assign: lhs is what transform_Assign hands it.
track_assign(lhs, c) ==
    IF isinstance_Name(lhs) /\ c.func = NoneNode
    THEN [c EXCEPT !.globals = @ \cup {lhs.id}]
    ELSE c

\* Transformer.transform_Assign, lines 266-268, in the context track_assign left.
assign_rhs(node, lhs, c1) ==
    ThenExpr(transform_expr(node.value, c1.mod.file), c1,
             LAMBDA rhs :
               R(ExpressionStatement(
                     BinaryOperatorExpression(lhs, binop_assign, rhs,
                                              loc_from(node, c1.mod.file)),
                     NoneNode), c1))

\* Transformer.transform_Assign
transform_Assign(node, c) ==
    IF Len(node.targets) # 1
    THEN R(Raise("AssertionError", "TODO: multi-assignments not yet supported"), c)
    ELSE ThenExpr(transform_expr(node.targets[1], c.mod.file), c,
                  LAMBDA lhs : assign_rhs(node, lhs, track_assign(lhs, c)))

\* Transformer.transform_Expr
transform_Expr(node, c) ==
    ThenExpr(transform_expr(node.value, c.mod.file), c,
             LAMBDA expr : R(ExpressionStatement(expr, loc_from(node, c.mod.file)), c))

\* Transformer.transform_Return: expr is bound only when the return has a value.
transform_Return(node, c) ==
    IF node.value = NoneNode
    THEN R(Raise("UnboundLocalError", "expr"), c)
    ELSE ThenExpr(transform_expr(node.value, c.mod.file), c,
                  LAMBDA expr : R(ReturnStatement(expr, loc_from(node, c.mod.file)), c))

\* Transformer.transform_block_stmts, lines 238-250, for the boundary locations.
block_loc_of(firstloc, lastloc) ==
    IF lastloc # NoneNode /\ firstloc = NoneNode
    THEN Raise("NameError", "loastloc")
    ELSE IF firstloc = NoneNode
    THEN NoneNode
    ELSE Location(firstloc.file, firstloc.start,
                  IF lastloc # NoneNode THEN lastloc.end ELSE NoneNode)

\* Transformer.transform_block_stmts, lines 235-252: the block's location.
block_loc(stmts) ==
    IF Len(stmts) = 0 THEN NoneNode
    ELSE block_loc_of(stmts[1].loc, stmts[Len(stmts)].loc)

\* Transformer.transform_block_stmts, line 252, or the exception of line 247.
make_block(stmts, l, c) == IF IsErr(l) THEN R(l, c) ELSE R(Block(stmts, l), c)

\* Lines 223-227: the result of a handler must be an ast.Statement.
check_stmt(r, node) ==
    IF IsErr(r.res) THEN r
    ELSE IF r.res.cls \notin StatementClasses
    THEN R(Raise("AssertionError", TypeName(node)), r.ctx)
    ELSE r

RECURSIVE transform_stmt(_, _)
RECURSIVE block_stmts_from(_, _, _, _)
\* Transformer.transform_block_stmts, line 233: the outcome r of statement i.
block_step(r, nodes, i, stmts) ==
    IF IsErr(r.res) THEN r
    ELSE block_stmts_from(nodes, i + 1, Append(stmts, r.res), r.ctx)

\* Transformer.transform_block_stmts, lines 231-252, from statement i on.
block_stmts_from(nodes, i, stmts, c) ==
    IF i > Len(nodes) THEN make_block(stmts, block_loc(stmts), c)
    ELSE block_step(transform_stmt(nodes[i], c), nodes, i, stmts)

\* Transformer.transform_block_stmts
transform_block_stmts(nodes, c) == block_stmts_from(nodes, 1, <<>>, c)

\* Transformer.transform_If, lines 324-327: node.orelse is the list of the else
\* branch's statements, handed to transform_stmt as it is.
if_alt(node, cond, cons) ==
    IF Len(node.orelse) = 0
    THEN R(IfStatement(cond, cons.res, NoneNode, loc_from(node, cons.ctx.mod.file)),
           cons.ctx)
    ELSE ThenS(transform_stmt([cls |-> "list", items |-> node.orelse], cons.ctx),
               LAMBDA alt :
                 R(IfStatement(cond, cons.res, alt.res,
                               loc_from(node, alt.ctx.mod.file)), alt.ctx))

\* Transformer.transform_If
transform_If(node, c) ==
    ThenExpr(transform_expr(node.test, c.mod.file), c,
             LAMBDA cond :
               ThenS(transform_block_stmts(node.body, c),
                     LAMBDA cons : if_alt(node, cond, cons)))

\* Transformer.transform_stmt
transform_stmt(node, c) ==
    check_stmt(
        CASE node.cls = "py_ast.Assign" -> transform_Assign(node, c)
          [] node.cls = "py_ast.Break" ->
               R(BreakStatement(loc_from(node, c.mod.file)), c)
          [] node.cls = "py_ast.ClassDef" ->
               R(Raise("AssertionError",
                       "TODO: classes in non-top-level positions not yet supported"), c)
          [] node.cls = "py_ast.Continue" ->
               R(ContinueStatement(loc_from(node, c.mod.file)), c)
          [] node.cls = "py_ast.Expr" -> transform_Expr(node, c)
          [] node.cls = "py_ast.FunctionDef" ->
               R(Raise("AssertionError",
                       "TODO: functions in non-top-level positions not yet supported"), c)
          [] node.cls = "py_ast.If" -> transform_If(node, c)
          [] node.cls \in {"py_ast.Import", "py_ast.ImportFrom"} ->
               R(Raise("AssertionError",
                       "TODO: imports in non-top-level positions not yet supported"), c)
          [] node.cls = "py_ast.Pass" ->
               R(EmptyStatement(loc_from(node, c.mod.file)), c)
          [] node.cls = "py_ast.Return" -> transform_Return(node, c)
          [] node.cls \in UnsupportedStmtClasses -> R(not_yet_implemented(node), c)
          [] OTHER ->
               R(Raise("AssertionError: Unrecognized statement node", TypeName(node)), c),
        node)

\* Transformer.transform_FunctionDef, lines 305-309: the parameters.
def_args(node, file) ==
    [i \in 1..Len(node.args.args) |->
        LocalVariable(ident(node.args.args[i], NoneNode, file),
                      type_token(type_dynamic, NoneNode, file),
                      loc_from(node.args, file))]

\* Transformer.transform_FunctionDef, lines 313-316: the ModuleMethod is built
\* without the body that was just lowered, and the finally clause restores
\* ctx.func whether or not the body raised.
def_result(node, body, oldfunc) ==
    IF IsErr(body.res)
    THEN R(body.res, [body.ctx EXCEPT !.func = oldfunc])
    ELSE R(ModuleMethod(ident(node.name, NoneNode, body.ctx.mod.file),
                        def_args(node, body.ctx.mod.file),
                        type_token(type_dynamic, NoneNode, body.ctx.mod.file),
                        NoneNode, loc_from(node, body.ctx.mod.file)),
           [body.ctx EXCEPT !.func = oldfunc])

\* Transformer.transform_FunctionDef
transform_FunctionDef(node, c) ==
    def_result(node, transform_block_stmts(node.body, [c EXCEPT !.func = node]), c.func)

\* Transformer.transform_ClassDef
transform_ClassDef(node, c) == R(not_yet_implemented(node), c)

\* Transformer.transform_Import
transform_Import(node, c) ==
    {ModuleToken(node.names[i].name, loc_from(node.names[i], c.mod.file)) :
        i \in 1..Len(node.names)}

(***************************************************************************)
(* Module assembly (Transformer.transform_Module) as operators.            *)
(***************************************************************************)
Put(f, k, v) == [x \in DOMAIN f \cup {k} |-> IF x = k THEN v ELSE f[x]]

\* Lines 115-117: the members a module starts with.
initial_members(file) ==
    Put(<<>>, "__name__",
        ModuleProperty(ident("__name__", NoneNode, file),
                       type_token(type_dynamic, NoneNode, file)))

\* Lines 118-121: __name__ = "__main__"
modname_init ==
    BinaryOperatorExpression(LoadLocationExpression(Token("__name__"), NoneNode),
                             binop_assign,
                             StringLiteral("__main__", NoneNode), NoneNode)

\* An initializer list that starts out empty.
empty_initstmts == <<>>
\* Lines 110 and 122: the initializer list before the first top-level statement.
initial_initstmts == <<ExpressionStatement(modname_init, NoneNode)>>

\* Putting a lowered statement in front of the initializer list.
prepend_initstmt(inits, stmt) == <<stmt>> \o inits
\* Line 142: initstmts.append(initstmt)
add_initstmt(inits, stmt) == Append(inits, stmt)

\* Lines 145-147: the init member.
register_init(mems, inits, file) ==
    IF Len(inits) > 0
    THEN Put(mems, func_init,
             ModuleMethod(ident(func_init, NoneNode, file), NoneNode, NoneNode,
                          Block(inits, NoneNode), NoneNode))
    ELSE mems

\* An entrypoint that is registered only when there is no init member.
register_entrypoint_unless_init(mems, file) ==
    IF func_init \in DOMAIN mems
    THEN mems
    ELSE Put(mems, func_entrypoint,
             ModuleMethod(ident(func_entrypoint, NoneNode, file), NoneNode, NoneNode,
                          Block(<<>>, NoneNode), NoneNode))
\* Lines 151-152: the entrypoint member.
register_entrypoint(mems, file) ==
    Put(mems, func_entrypoint,
        ModuleMethod(ident(func_entrypoint, NoneNode, file), NoneNode, NoneNode,
                     Block(<<>>, NoneNode), NoneNode))

\* Lines 156-157: a global that is a member already fails the assertion.
globals_clash(mems, globals) == globals \cap DOMAIN mems # {}

\* Lines 155-159: one ModuleProperty per name in ctx.globals.
register_globals(mems, globals, file) ==
    [x \in DOMAIN mems \cup globals |->
        IF x \in globals
        THEN ModuleProperty(ident(x, NoneNode, file),
                            type_token(type_dynamic, NoneNode, file))
        ELSE mems[x]]

\* Transformer.current_module_token and line 165: package, module and member name,
\* joined by tokens.delim.
member_token(pkgname, modname, name) == <<pkgname, modname, name>>

\* Lines 162-166
make_exports(mems, pkgname, c) ==
    [name \in DOMAIN mems |->
        Export(ident(name, NoneNode, c.mod.file),
               Token(member_token(pkgname, c.mod.name, name)))]

\* Lines 154-168, for the members m2 registered so far.
finish_module(name, m2, imps, pkgname, c) ==
    IF globals_clash(m2, c.globals)
    THEN Raise("AssertionError",
               "Module property unexpectedly clashes with a prior declaration")
    ELSE Module(ident(name, NoneNode, c.mod.file), imps,
                make_exports(register_globals(m2, c.globals, c.mod.file), pkgname, c),
                register_globals(m2, c.globals, c.mod.file))

\* Lines 144-168: the module, or the exception of line 156.
assemble(name, mems, inits, imps, pkgname, c) ==
    finish_module(name,
                  register_entrypoint(register_init(mems, inits, c.mod.file), c.mod.file),
                  imps, pkgname, c)

(***************************************************************************)
(* The modules handed to Transformer.transform.                            *)
(***************************************************************************)
\* Longest module body built from the statements of CoreTags.
MaxStmts == 3
\* Longest list of modules handed to one transform call.
MaxModules == 2

X(l) == Name("x", l)
Y(l) == Name("y", l)

\* The top-level statement a tag stands for, at source line i.
StmtAt(tag, i) ==
    LET l == SrcLoc(i) IN
    CASE tag = "pass" -> Pass(l)
      [] tag = "break" -> Break(l)
      [] tag = "continue" -> Continue(l)
      [] tag = "return" -> Return(X(l), l)
      [] tag = "call0" -> Expr(Call(Name("f", l), <<>>, l), l)
      [] tag = "call1" -> Expr(Call(Name("f", l), <<X(l)>>, l), l)
      [] tag = "call2" -> Expr(Call(Name("f", l), <<X(l), Str("s", l)>>, l), l)
      [] tag = "assign_x" -> Assign(<<X(l)>>, Str("a", l), l)
      [] tag = "assign_y" -> Assign(<<Y(l)>>, X(l), l)
      [] tag = "assign_num" -> Assign(<<X(l)>>, Num(1, l), l)
      [] tag = "assign_multi" -> Assign(<<X(l), Y(l)>>, Str("a", l), l)
      [] tag = "assign_attr" -> Assign(<<Attribute(X(l), "a", l)>>, Str("a", l), l)
      [] tag = "assign_name" -> Assign(<<Name("__name__", l)>>, Str("a", l), l)
      [] tag = "def_f" -> FunctionDef("f", <<"a">>, <<Return(Name("a", l), l)>>, l)
      [] tag = "def_g" ->
           FunctionDef("g", <<"a", "b">>, <<Assign(<<X(l)>>, Str("a", l), l)>>, l)
      [] tag = "def_f2" ->
           FunctionDef("f", <<>>, <<Assign(<<X(l)>>, Str("a", l), l), Pass(l)>>, l)
      [] tag = "def_h" -> FunctionDef("h", <<>>, <<Return(NoneNode, l)>>, l)
      [] tag = "def_nested" ->
           FunctionDef("k", <<>>, <<FunctionDef("i", <<>>, <<Pass(l)>>, l)>>, l)
      [] tag = "def_nested_class" ->
           FunctionDef("k", <<>>, <<Other("py_ast.ClassDef", l)>>, l)
      [] tag = "if_nested" ->
           If(NameConstant("True", l), <<FunctionDef("i", <<>>, <<Pass(l)>>, l)>>,
              <<>>, l)
      [] tag = "ifelse_assign" ->
           If(Compare(X(l), <<"Lt">>, <<Y(l)>>, l),
              <<Pass(l), Assign(<<X(l)>>, Str("a", l), l)>>,
              <<Expr(Call(Name("f", l), <<>>, l), l)>>, l)
      [] tag = "if_assign_pass" ->
           If(NameConstant("True", l), <<Assign(<<X(l)>>, Str("a", l), l), Pass(l)>>,
              <<>>, l)
      [] tag = "import" -> Import(<<(<<"os", "path">>)>>, l)
      [] tag = "if" -> If(Compare(X(l), <<"Eq">>, <<Y(l)>>, l), <<Pass(l)>>, <<>>, l)
      [] tag = "if_assign" ->
           If(NameConstant("True", l), <<Assign(<<Y(l)>>, Str("a", l), l)>>, <<>>, l)
      [] tag = "ifelse" -> If(NameConstant("True", l), <<Pass(l)>>, <<Pass(l)>>, l)
      [] tag = "attr" -> Expr(Attribute(X(l), "a", l), l)
      [] tag = "ifexp" -> Expr(IfExp(NameConstant("None", l), X(l), Y(l), l), l)
      [] tag = "compare2" ->
           Expr(Compare(X(l), <<"Lt", "Lt">>, <<Y(l), X(l)>>, l), l)
      [] tag = "num" -> Expr(Num(1, l), l)
      [] tag \in UnsupportedExprClasses -> Expr(Other(tag, l), l)
      [] OTHER -> Other(tag, l)

\* Statements that module bodies of any length up to MaxStmts are built from.
CoreTags ==
    {"pass", "call1", "call2", "assign_x", "assign_y", "def_f", "def_g", "import",
     "if", "py_ast.While"}
\* Statements that are lowered as a module's only statement.
SingleTags ==
    {"break", "continue", "return", "call0", "assign_num", "assign_multi",
     "assign_attr", "assign_name", "def_f2", "def_h", "def_nested",
     "def_nested_class", "if_nested", "ifelse", "ifelse_assign", "if_assign_pass",
     "if_assign", "attr", "ifexp", "compare2", "num", "py_ast.ClassDef",
     "py_ast.ImportFrom"}
        \cup UnsupportedStmtClasses \cup UnsupportedExprClasses
\* Statements of the modules of a list of several modules.
ListTags == {"assign_x", "py_ast.While"}

BodyOf(tags) == [i \in 1..Len(tags) |-> StmtAt(tags[i], i)]
SeqsUpTo(S, n) == UNION {[1..k -> S] : k \in 0..n}
Bodies ==
    {BodyOf(t) : t \in SeqsUpTo(CoreTags, MaxStmts)}
        \cup {BodyOf(<<t>>) : t \in SingleTags}
ListBodies == {BodyOf(t) : t \in SeqsUpTo(ListTags, 1)}

\* ModuleSpec
ModuleSpec(name, file, py_module) ==
    [cls |-> "ModuleSpec", name |-> name, file |-> file, py_module |-> py_module]
PyModule(body) == [cls |-> "py_ast.Module", body |-> body]
SpecFor(name, body) == ModuleSpec(name, <<name, ".py">>, PyModule(body))

ModuleNames == {"m", "n"}
ModuleLists ==
    {<<SpecFor("m", b)>> : b \in Bodies}
        \cup UNION {[1..k -> {SpecFor(n, b) : n \in ModuleNames, b \in ListBodies}] :
                        k \in {0} \cup 2..MaxModules}

(***************************************************************************)
(* Transformer.transform as a state machine: one step per module of the    *)
(* list and per top-level statement of a module.                           *)
(***************************************************************************)
\* Transformer.__init__, with a freshly loaded package.
Transformer_init ==
    /\ tpc = "idle"
    /\ ctx = NoneNode
    /\ oldctx = NoneNode
    /\ self_pkg = [name |-> "pkg", modules |-> <<>>]
    /\ modules = <<>>
    /\ mi = 1
    /\ members = <<>>
    /\ initstmts = <<>>
    /\ imports = {}
    /\ si = 1
    /\ mod = NoneNode
    /\ raised = NoneNode

\* An exception leaves transform with no finally clause: ctx stays as it is.
Throw_no_finally(e) ==
    /\ tpc' = "raised"
    /\ raised' = e
    /\ ctx' = ctx
\* An exception leaves transform: the finally clause of line 102 restores ctx.
Throw(e) ==
    /\ tpc' = "raised"
    /\ raised' = e
    /\ ctx' = oldctx

\* Lines 94-96: transform is entered.
transform ==
    /\ tpc = "idle"
    /\ \E ms \in ModuleLists : modules' = ms
    /\ oldctx' = ctx
    /\ mi' = 1
    /\ tpc' = "loop"
    /\ UNCHANGED <<ctx, self_pkg, members, initstmts, imports, si, mod, raised>>
    /\ UNCHANGED lvars

\* Line 97 and lines 108-122: a fresh Context, and transform_Module up to its loop.
EnterModule ==
    /\ tpc = "loop"
    /\ mi <= Len(modules)
    /\ ctx' = Context(modules[mi])
    /\ members' = initial_members(modules[mi].file)
    /\ initstmts' = initial_initstmts
    /\ imports' = {}
    /\ si' = 1
    /\ tpc' = "body"
    /\ UNCHANGED <<oldctx, self_pkg, modules, mi, mod, raised>>
    /\ UNCHANGED lvars

\* Lines 131-132: the outcome r of transform_FunctionDef.
AddFunction(r) ==
    IF IsErr(r.res)
    THEN Throw(r.res) /\ UNCHANGED <<members, initstmts, imports, si>>
    ELSE /\ members' = Put(members, r.res.name.ident, r.res)
         /\ ctx' = r.ctx
         /\ si' = si + 1
         /\ UNCHANGED <<tpc, raised, initstmts, imports>>

\* Lines 140-142: the outcome r of transform_stmt.
AddInitStmt(r) ==
    IF IsErr(r.res)
    THEN Throw(r.res) /\ UNCHANGED <<members, initstmts, imports, si>>
    ELSE /\ initstmts' = add_initstmt(initstmts, r.res)
         /\ ctx' = r.ctx
         /\ si' = si + 1
         /\ UNCHANGED <<tpc, raised, members, imports>>

\* Lines 128-142: one top-level statement.
LowerTopLevel(stmt) ==
    CASE stmt.cls = "py_ast.FunctionDef" -> AddFunction(transform_FunctionDef(stmt, ctx))
      [] stmt.cls = "py_ast.ClassDef" ->
           Throw(transform_ClassDef(stmt, ctx).res)
              /\ UNCHANGED <<members, initstmts, imports, si>>
      [] stmt.cls = "py_ast.Import" ->
           /\ imports' = imports \cup transform_Import(stmt, ctx)
           /\ si' = si + 1
           /\ UNCHANGED <<tpc, raised, ctx, members, initstmts>>
      [] OTHER -> AddInitStmt(transform_stmt(stmt, ctx))

TopLevelStmt ==
    /\ tpc = "body"
    /\ si <= Len(ctx.mod.py_module.body)
    /\ LowerTopLevel(ctx.mod.py_module.body[si])
    /\ UNCHANGED <<oldctx, self_pkg, modules, mi, mod>>
    /\ UNCHANGED lvars

\* Line 98: what transform_Module returned or raised.
Assembled(m) ==
    IF IsErr(m)
    THEN Throw(m) /\ UNCHANGED mod
    ELSE /\ mod' = m
         /\ tpc' = "insert"
         /\ UNCHANGED <<ctx, raised>>

\* Lines 144-168 and the assignment of line 98: transform_Module returns.
AssembleModule ==
    /\ tpc = "body"
    /\ si > Len(ctx.mod.py_module.body)
    /\ Assembled(assemble(ctx.mod.name, members, initstmts, imports, self_pkg.name, ctx))
    /\ UNCHANGED <<oldctx, self_pkg, modules, mi, members, initstmts, imports, si>>
    /\ UNCHANGED lvars

\* Line 99 without its test: no name is ever taken.
module_never_exists(name, table) == FALSE
\* Line 99: module.name in self.pkg.modules
module_exists(name, table) == name \in DOMAIN table

\* Lines 99-100: the module table gains the module, unless its name is taken.
InsertModule ==
    /\ tpc = "insert"
    /\ IF module_exists(modules[mi].name, self_pkg.modules)
       THEN Throw(Raise("AssertionError: Module already exists", modules[mi].name))
              /\ UNCHANGED <<self_pkg, mi>>
       ELSE /\ self_pkg' = [self_pkg EXCEPT
                               !.modules = Put(@, modules[mi].name, mod)]
            /\ mi' = mi + 1
            /\ tpc' = "loop"
            /\ UNCHANGED <<ctx, raised>>
    /\ UNCHANGED <<oldctx, modules, members, initstmts, imports, si, mod>>
    /\ UNCHANGED lvars

\* Lines 101-103: the list is exhausted; ctx is restored and the package returned.
Return_pkg ==
    /\ tpc = "loop"
    /\ mi > Len(modules)
    /\ ctx' = oldctx
    /\ tpc' = "returned"
    /\ UNCHANGED <<oldctx, self_pkg, modules, mi, members, initstmts, imports, si,
                   mod, raised>>
    /\ UNCHANGED lvars

NoFiles == [p \in Paths |-> "absent"]

InitLoader == (\E f \in FileSystems : Loader_init(f)) /\ Transformer_init
InitTransform == Loader_init(NoFiles) /\ Transformer_init

NextLoader ==
    \/ loadProject
    \/ loadDependency
    \/ Probe
    \/ AfterFor

SpecLoader == InitLoader /\ [][NextLoader]_vars

NextTransform ==
    \/ transform
    \/ EnterModule
    \/ TopLevelStmt
    \/ AssembleModule
    \/ InsertModule
    \/ Return_pkg

SpecTransform == InitTransform /\ [][NextTransform]_vars

(***************************************************************************)
(* Claims about the Transformer.  In a state with tpc = "insert",          *)
(* transform_Module has just returned mod for the module modules[mi].      *)
(***************************************************************************)
Produced == tpc = "insert"
Src == modules[mi].py_module.body
SrcFile == modules[mi].file
\* A top-level statement that goes to the module initializer.
IsLoose(stmt) == stmt.cls \notin {"py_ast.FunctionDef", "py_ast.ClassDef", "py_ast.Import"}
\* The source positions of a body's loose statements, in source order.
LooseIdx(body) == SelectSeq([i \in 1..Len(body) |-> i], LAMBDA i : IsLoose(body[i]))
OnlyDefsAndImports(body) ==
    \A i \in 1..Len(body) : body[i].cls \in {"py_ast.FunctionDef", "py_ast.Import"}
HasInit(m) == func_init \in DOMAIN m.members
InitBody(m) == m.members[func_init].body.statements
\* st is the statement __name__ = "__main__".
IsNameBinding(st) ==
    /\ st.cls = "ast.ExpressionStatement"
    /\ st.expression.cls = "ast.BinaryOperatorExpression"
    /\ st.expression.operator = "="
    /\ st.expression.left.cls = "ast.LoadLocationExpression"
    /\ st.expression.left.name.tok = "__name__"
    /\ st.expression.right.cls = "ast.StringLiteral"
    /\ st.expression.right.value = "__main__"
\* The Coconut statement class a supported Python statement lowers to.
LoweredClass(c) ==
    CASE c = "py_ast.Pass" -> "ast.EmptyStatement"
      [] c = "py_ast.Break" -> "ast.Break"
      [] c = "py_ast.Continue" -> "ast.Continue"
      [] c = "py_ast.Return" -> "ast.ReturnStatement"
      [] c = "py_ast.If" -> "ast.IfStatement"
      [] c \in {"py_ast.Expr", "py_ast.Assign"} -> "ast.ExpressionStatement"
      [] OTHER -> "none"
\* The source line a lowered statement carries (an assignment carries it on its
\* expression).
StmtLine(st) ==
    IF st.loc # NoneNode THEN st.loc.start.line ELSE st.expression.loc.start.line
IsBareNameAssign(stmt) ==
    /\ stmt.cls = "py_ast.Assign"
    /\ Len(stmt.targets) = 1
    /\ stmt.targets[1].cls = "py_ast.Name"

\* C1: in every module transform_Module produces, each bare name that is the target
\* of a top-level single-target assignment is a ModuleProperty member.
C1_AssignedNamesAreProperties ==
    Produced =>
        \A i \in 1..Len(Src) :
            IsBareNameAssign(Src[i]) =>
                /\ Src[i].targets[1].id \in DOMAIN mod.members
                /\ mod.members[Src[i].targets[1].id].cls = "ast.ModuleProperty"

\* C3: a lowered call statement carries the lowering of every source argument, in
\* source order.
C3_CallKeepsArguments ==
    Produced =>
        \A k \in 1..Len(LooseIdx(Src)) :
            LET src == Src[LooseIdx(Src)[k]] IN
            (src.cls = "py_ast.Expr" /\ src.value.cls = "py_ast.Call") =>
                LET call == InitBody(mod)[k + 1].expression IN
                /\ call.cls = "ast.InvokeFunctionExpression"
                /\ Len(call.arguments) = Len(src.value.args)
                /\ \A j \in 1..Len(src.value.args) :
                      call.arguments[j] = transform_expr(src.value.args[j], SrcFile)

\* C4 (as stated): a module of function definitions and imports only has no init
\* member.
C4_NoInitWithoutLooseCode ==
    (Produced /\ OnlyDefsAndImports(Src)) => ~HasInit(mod)

\* C4 (amended): a module of function definitions and imports only has an init
\* member whose body is exactly the synthesized __name__ = "__main__" statement.
C4_InitHoldsOnlyNameBinding ==
    (Produced /\ OnlyDefsAndImports(Src)) =>
        /\ HasInit(mod)
        /\ mod.members[func_init].cls = "ast.ModuleMethod"
        /\ Len(InitBody(mod)) = 1
        /\ IsNameBinding(InitBody(mod)[1])

\* A module of a function definition and an import has been produced.
C4_Witness ==
    /\ Produced
    /\ OnlyDefsAndImports(Src)
    /\ \E i, j \in 1..Len(Src) :
          Src[i].cls = "py_ast.FunctionDef" /\ Src[j].cls = "py_ast.Import"

\* C5: a top-level function definition is a ModuleMethod member under its name, with
\* one dynamic parameter per source parameter in order and a body block of as many
\* statements as the function's body.
C5_FunctionBecomesMethodWithBody ==
    Produced =>
        \A i \in 1..Len(Src) :
            (/\ Src[i].cls = "py_ast.FunctionDef"
             /\ \A j \in (i + 1)..Len(Src) :
                   Src[j].cls = "py_ast.FunctionDef" => Src[j].name # Src[i].name) =>
                LET m == mod.members[Src[i].name] IN
                /\ m.cls = "ast.ModuleMethod"
                /\ m.name.ident = Src[i].name
                /\ Len(m.parameters) = Len(Src[i].args.args)
                /\ \A j \in 1..Len(Src[i].args.args) :
                      /\ m.parameters[j].name.ident = Src[i].args.args[j]
                      /\ m.parameters[j].type.tok = type_dynamic
                /\ m.body.cls = "ast.Block"
                /\ Len(m.body.statements) = Len(Src[i].body)

\* C6: a module with loose top-level statements has an init member whose body is the
\* __name__ = "__main__" statement followed by one lowered statement per loose
\* statement, in source order.
C6_InitBodyInSourceOrder ==
    (Produced /\ Len(LooseIdx(Src)) > 0) =>
        /\ HasInit(mod)
        /\ mod.members[func_init].cls = "ast.ModuleMethod"
        /\ mod.members[func_init].body.cls = "ast.Block"
        /\ Len(InitBody(mod)) = 1 + Len(LooseIdx(Src))
        /\ IsNameBinding(InitBody(mod)[1])
        /\ \A k \in 1..Len(LooseIdx(Src)) :
              /\ InitBody(mod)[k + 1].cls = LoweredClass(Src[LooseIdx(Src)[k]].cls)
              /\ StmtLine(InitBody(mod)[k + 1]) = Src[LooseIdx(Src)[k]].loc.line

\* Two loose statements of different kinds around a function definition.
C6_Witness ==
    /\ Produced
    /\ Len(Src) = 3
    /\ LooseIdx(Src) = <<1, 3>>
    /\ Src[1].cls # Src[3].cls

\* C7: every produced module has exactly one entrypoint member, a ModuleMethod with
\* an empty body.
C7_OneEmptyEntrypoint ==
    Produced =>
        /\ func_entrypoint \in DOMAIN mod.members
        /\ Cardinality({n \in DOMAIN mod.members :
                           /\ mod.members[n].cls = "ast.ModuleMethod"
                           /\ mod.members[n].name.ident = func_entrypoint}) = 1
        /\ mod.members[func_entrypoint].cls = "ast.ModuleMethod"
        /\ mod.members[func_entrypoint].name.ident = func_entrypoint
        /\ mod.members[func_entrypoint].body = Block(<<>>, NoneNode)

\* A module with no top-level statement has been produced, init member included.
C7_Witness == Produced /\ Len(Src) = 0 /\ HasInit(mod)

\* transform was handed one module of one top-level statement.
OneStatement == Len(modules) = 1 /\ Len(modules[1].py_module.body) = 1
TheStatement == modules[1].py_module.body[1]
\* The lowering of the module has ended, by a module or by an exception.
Ended == tpc \in {"insert", "returned", "raised"}
\* A definition directly inside the body of a function or of a conditional.
IsNestedDef(stmt) ==
    /\ stmt.cls \in {"py_ast.FunctionDef", "py_ast.If"}
    /\ Len(stmt.body) = 1
    /\ stmt.body[1].cls \in {"py_ast.FunctionDef", "py_ast.ClassDef"}
\* The unsupported node a one-statement module consists of, or NoneNode: an
\* unsupported statement, an expression statement of an unsupported expression, or
\* a definition nested in a function or a conditional.
UnsupportedNode(stmt) ==
    CASE stmt.cls \in UnsupportedStmtClasses -> stmt
      [] stmt.cls = "py_ast.Expr" /\ stmt.value.cls \in UnsupportedExprClasses ->
           stmt.value
      [] IsNestedDef(stmt) -> stmt.body[1]
      [] OTHER -> NoneNode
\* The exception is the not-yet-implemented one and names the class of node.
NamesKind(e, node) ==
    /\ e.cls = "Error"
    /\ e.type = "Exception: Not yet implemented"
    /\ e.what = TypeName(node)

\* C11: lowering a module that consists of one unsupported construct never produces
\* a module; it ends with the not-yet-implemented exception naming the class of the
\* unsupported node.
C11_UnsupportedFailsNamingKind ==
    (OneStatement /\ UnsupportedNode(TheStatement) # NoneNode /\ Ended) =>
        /\ tpc = "raised"
        /\ NamesKind(raised, UnsupportedNode(TheStatement))

\* The module table of the package.
Table == self_pkg.modules
\* The step is the one in which an exception leaves transform.
Fails == tpc # "raised" /\ tpc' = "raised"

\* C12: the module table changes only by gaining the module that transform_Module
\* has just returned for the whole body of modules[mi], under a name that was not in
\* the table; a step in which transform fails leaves the table as it is, and a
\* module whose name is in the table makes transform fail.
C12_InsertOnlyAfterLowering ==
    [][/\ (Table' # Table) =>
             /\ tpc = "insert"
             /\ si > Len(modules[mi].py_module.body)
             /\ mod.cls = "ast.Module"
             /\ mod.name.ident = modules[mi].name
             /\ modules[mi].name \notin DOMAIN Table
             /\ Table' = Put(Table, modules[mi].name, mod)
             /\ ~Fails
       /\ Fails => Table' = Table
       /\ (tpc = "insert" /\ modules[mi].name \in DOMAIN Table) =>
             /\ Fails
             /\ raised'.type = "AssertionError: Module already exists"
             /\ raised'.what = modules[mi].name]_vars

\* The second module of a list has the name of the first and another body: transform
\* has failed on it and the table holds the first module.
C12_Witness ==
    /\ tpc = "raised"
    /\ raised.type = "AssertionError: Module already exists"
    /\ mi = 2
    /\ modules[1].name = modules[2].name
    /\ modules[1].py_module.body # modules[2].py_module.body
    /\ DOMAIN Table = {modules[1].name}
    /\ mod # Table[modules[1].name]

\* The context in which the only module of the list is lowered.
Ctx1 == Context(modules[1])
\* Every statement of the branch lowers when it is lowered on its own.
BranchSupported(branch) ==
    \A i \in 1..Len(branch) : ~IsErr(transform_stmt(branch[i], Ctx1).res)
\* A conditional whose test and whose branches' statements are supported.
SupportedIf(stmt) ==
    /\ stmt.cls = "py_ast.If"
    /\ ~IsErr(transform_expr(stmt.test, Ctx1.mod.file))
    /\ BranchSupported(stmt.body)
    /\ BranchSupported(stmt.orelse)
\* st is the lowering of the conditional stmt.
LowersIf(st, stmt) ==
    /\ st.cls = "ast.IfStatement"
    /\ st.condition = transform_expr(stmt.test, Ctx1.mod.file)
    /\ st.consequent.cls = "ast.Block"
    /\ st.consequent.statements =
          [i \in 1..Len(stmt.body) |-> transform_stmt(stmt.body[i], Ctx1).res]
    /\ (Len(stmt.orelse) = 0) <=> (st.alternate = NoneNode)
    /\ (Len(stmt.orelse) > 0) => st.alternate.cls \in StatementClasses

\* C13: lowering a module that consists of one conditional with supported test and
\* branches produces a module whose initializer holds an if-statement with the
\* lowered condition, the block of the lowered consequent and, exactly when the
\* source has an else branch, a lowered alternative.
C13_IfElseLowers ==
    (OneStatement /\ SupportedIf(TheStatement) /\ Ended) =>
        /\ tpc # "raised"
        /\ Produced =>
              /\ Len(InitBody(mod)) = 2
              /\ LowersIf(InitBody(mod)[2], TheStatement)

\* The top-level statement that is dispatched next, when there is one.
Dispatching == tpc = "body" /\ si <= Len(ctx.mod.py_module.body)
\* transform_FunctionDef leaves ctx.func as it found it, whatever it found and
\* whether it returns a method or raises.
RestoresFunc(stmt, c) ==
    \A f \in {NoneNode, stmt} :
        transform_FunctionDef(stmt, [c EXCEPT !.func = f]).ctx.func = f

\* C14: while a module's top-level statements are dispatched the context is the one
\* of that module and its current function is None; the first statement of every
\* module is dispatched in a fresh context with no globals; transform_FunctionDef
\* restores the current function on normal and on failing exit; once transform has
\* returned or failed, the context is again the one from before the call.
C14_ContextScopedToPass ==
    /\ tpc = "idle" => ctx = NoneNode
    /\ tpc # "idle" => oldctx = NoneNode
    /\ tpc = "body" =>
          /\ ctx.cls = "Context"
          /\ ctx.mod = modules[mi]
          /\ ctx.func = NoneNode
    /\ (tpc = "body" /\ si = 1) => ctx = Context(modules[mi])
    /\ (Dispatching /\ ctx.mod.py_module.body[si].cls = "py_ast.FunctionDef") =>
          RestoresFunc(ctx.mod.py_module.body[si], ctx)
    /\ tpc \in {"returned", "raised"} => ctx = oldctx

\* transform has failed while a top-level function definition was lowered: the
\* exception left transform_FunctionDef and then transform.
C14_Witness ==
    /\ tpc = "raised"
    /\ modules[mi].py_module.body[si].cls = "py_ast.FunctionDef"
    /\ IsErr(transform_FunctionDef(modules[mi].py_module.body[si],
                                   Context(modules[mi])).res)
    /\ ctx = oldctx

(***************************************************************************)
(* Claims about the Loader.                                                *)
(***************************************************************************)
Done == lpc \in {"returned", "raised"}
Present == {p \in Paths : fs[p] # "absent"}
\* The directory a descriptor path lies in.
DirOf(p) == SubSeq(p[1], 1, Len(p[1]) - 1)
StrictAncestor(d, e) == Len(d) < Len(e) /\ SubSeq(e, 1, Len(d)) = d
NotFound(r) == [kind |-> "No package found at root path", path |-> r]
MissingName(p) == [kind |-> "Missing name in package", path |-> p]
CacheHitReturn == lpc = "returned" /\ outcome.kind = "pkg" /\ outcome.via = "cache"

\* C2: loadCore always terminates; in particular a search that finds nothing stops
\* at the filesystem root instead of probing the root directory again, so no path
\* is opened twice within one call.
C2_SearchStopsAtRoot == ~reprobed

\* C8 (as stated): a resolution that ends in a cache hit has performed no file I/O
\* at all, i.e. it has called open() on no path.
C8_CacheHitNoFileIO == CacheHitReturn => probed = {}

\* C8 (amended): a memoized descriptor path is read and parsed at most once, and a
\* resolution that ends in a cache hit on a path returns the memoized package
\* without opening that path.
C8_MemoizedReadOnce ==
    /\ \A p \in DOMAIN cache : p \in reads /\ p \notin rereads
    /\ CacheHitReturn =>
          /\ pkgpath \in DOMAIN cache
          /\ pkgpath \notin probed
          /\ outcome.pkg = cache[pkgpath]

\* A second resolution ended in a cache hit after failed opens of earlier candidates.
C8_Witness == CacheHitReturn /\ pkgpath \in reads /\ probed # {}

\* C9: when the only descriptor lies in a strict ancestor of the start directory,
\* a finished dependency-mode call has walked up and returned that descriptor, and
\* a finished project-mode call has probed only the start directory and failed
\* with package-not-found naming the start directory.
OnlyInAncestor(p) ==
    /\ fs[p] = "valid"
    /\ \A q \in Paths : q # p => fs[q] = "absent"
    /\ p[1][Len(p[1])] \in {coconut_project_base, coconut_package_base}
    /\ StrictAncestor(DirOf(p), root)
C9_UpwardOnlyInDependencyMode ==
    (lpc # "idle" /\ \E p \in Paths : fs[p] # "absent") =>
        LET p == CHOOSE q \in Paths : fs[q] # "absent" IN
        OnlyInAncestor(p) =>
            /\ ~reprobed
            /\ \A q \in probed : ~upwards => DirOf(q) = root
            /\ Done =>
                  IF upwards
                  THEN outcome.kind = "pkg" /\ outcome.pkg = Package(p)
                  ELSE outcome = NotFound(root)

\* Project mode has just failed in a nested directory although an earlier
\* dependency-mode call had found (and memoized) the ancestor's descriptor.
C9_Witness ==
    \E p \in Paths :
        /\ OnlyInAncestor(p)
        /\ lpc = "raised" /\ ~upwards
        /\ p \in DOMAIN cache

\* C10: probing a file that parses but has no name ends the call at once with the
\* missing-name error naming that file: no further candidate is built, the search
\* directory does not change, and the cache is left as it was.
C10_MissingNameIsFatal ==
    [][(lpc = "probe" /\ ~cacheHit(cache, candidate) /\ fs[candidate] = "noname") =>
          /\ lpc' = "raised"
          /\ outcome' = MissingName(candidate)
          /\ pkgpath' = candidate
          /\ cache' = cache
          /\ <<search, bi, ei>>' = <<search, bi, ei>>]_vars

\* A call has failed on a nameless descriptor while a valid descriptor exists that
\* the search would have reached next.
C10_Witness ==
    /\ lpc = "raised"
    /\ outcome = MissingName(pkgpath)
    /\ fs[pkgpath] = "noname"
    /\ \E q \in Present : fs[q] = "valid" /\ q \notin probed /\ q \notin DOMAIN cache

====
